---- MODULE Spec2Model ----
(***************************************************************************)
(* Record-and-replay engine of agent-debug:                                *)
(*   src/agent-debug/src/agent_debug/state_manager.py                      *)
(*   src/agent-debug/src/agent_debug/decorators.py                         *)
(*                                                                         *)
(* Python objects have identity.  Dict objects live in `heap` and are      *)
(* named by an object id; a checkpoint's shared_store_state holds such an  *)
(* id (a reference), exactly as Checkpoint.__init__ stores the object it   *)
(* is given.  The manager's lock makes add_checkpoint and get_checkpoint   *)
(* atomic with respect to each other: Record is add_checkpoint as one      *)
(* step.  to_file and checkpoints_from_file take no lock, so where threads *)
(* run concurrently add_checkpoint is the two steps AddBegin and AddAppend.*)
(*                                                                         *)
(* The workflow of src/flow.py and src/nodes.py, run by src/main.py: every *)
(* node method is wrapped by recordable_node, so a method called again     *)
(* goes through the wrapper's test of its latest checkpoint, whose         *)
(* snapshot is the shared store (or the dict prep returned) itself.        *)
(***************************************************************************)
EXTENDS Integers, Sequences, FiniteSets, TLC

\* ---------------------------------------------------------------- bounds
MaxCalls == 2       \* wrapper calls started
MaxRuns == 2        \* process runs (the first run and one later run)

\* ------------------------------------------------------------ value sets
Threads == {"t1", "t2"}
\* the instrumented callables of the program: the module that defines each
\* and its __qualname__ (class A and class B of module "nodes" both have a
\* method prep; module "other" has a class A with a method prep of its own)
Callable(m, q) == [module |-> m, qualname |-> q]
Callables == {Callable("nodes", "A.prep"), Callable("nodes", "B.prep"),
              Callable("other", "A.prep")}
NodesModule == {f \in Callables : f.module = "nodes"}
\* wrapper, line 23: node_id = func.__qualname__
node_id(func) == func.qualname
NodeIds == {"A.prep", "B.prep"}          \* func.__qualname__ values
Objs == {"d1", "d2"}                     \* identities of the caller's dicts
None == "None"
Outputs == {"out1", "out2"}              \* values the callable may return

EmptyDict == [k \in {} |-> 0]
\* contents a dict may have; includes the spec's {"x": 1} and {"x": 2, "y": 3}
Contents == {EmptyDict, [x |-> 1], [x |-> 2, y |-> 3]}

\* positional arguments and keyword argument (none, or m=<a dict>) of a call.  "42" is a JSON-serializable
\* scalar, "handle" a live I/O handle, "ovf" a value whose encoding overflows,
\* "cyc" a list that contains itself.
Args(a, k) == [args |-> a, kwargs |-> k]
CallArgs == {Args(<<"42">>, "none"), Args(<<>>, "d2"),
             Args(<<"d1">>, "none"), Args(<<"d2">>, "none"),
             Args(<<"handle", "d1">>, "none"), Args(<<"ovf">>, "none"),
             Args(<<"cyc", "d2">>, "none")}

EmptyMap == [n \in {} |-> <<>>]

VARIABLES
    heap,        \* object id -> current contents of that dict object
    nodes,       \* StateManager.nodes: node id -> list of checkpoints
    session_id,  \* StateManager.session_id
    clock,       \* time.time()
    file,        \* the document at the persistence path
    pc,          \* per thread: position inside wrapper
    call,        \* per thread: node id, args, kwargs, cached, output of its call
    ncalls,      \* per thread: wrapper calls it has started
    run,         \* index of the process run
    invoked,     \* per node: invocation counter of the underlying callable
    last,        \* per node: path and result of the last completed wrapper call
    pristine,    \* per node: its last call RECORDed with a mapping, untouched since
    truth,       \* per node, per checkpoint: collaborator contents when appended
    persisted,   \* what the store held when to_file was last called
    loaded,      \* a load of that file was performed in a later run
    load_raised, \* what the checkpoints_from_file call just made raised
    recorded,    \* per node: wrapper calls that returned after add_checkpoint
    wf_shared,   \* the workflow's shared store: the dict main passes to the flow
    wf_curr,     \* Flow._orch: the node that runs next, None when the loop ended
    wf_at,       \* Node._run: the method of wf_curr that is called next
    wf_prep_res, \* Node._run: what prep returned
    wf_exec_res, \* Node._run: what exec returned
    wf_cached,   \* per workflow method: the latest checkpoint of its node id
    wf_last,     \* the node whose post returned last, and the action it returned
    wf_ran,      \* the workflow nodes whose run has started, in order
    wf_raised    \* the exception that ended Flow.run, if one did

\* heap, nodes, session_id, clock, file, pc and call are the program's state;
\* ncalls and run count operations for the bounds; invoked, last, pristine,
\* truth, persisted, loaded, load_raised and recorded record what happened and
\* are never read by the operations.  The wf_ variables are the workflow of
\* flow.py and nodes.py, whose node methods are all wrapped by recordable_node;
\* wf_last and wf_ran record what happened there.

manager_vars == <<heap, nodes, session_id, clock, file, pc, call, ncalls, run,
                  invoked, last, pristine, truth, persisted, loaded, load_raised,
                  recorded>>

wfvars == <<wf_shared, wf_curr, wf_at, wf_prep_res, wf_exec_res, wf_cached,
            wf_last, wf_ran, wf_raised>>

vars == <<manager_vars, wfvars>>

\* ------------------------------------------------------------ decorators.py
\* a lookup that returns the last dict among the positional arguments
find_shared_last(args) ==
    IF \E i \in 1..Len(args) : args[i] \in Objs
    THEN args[CHOOSE i \in 1..Len(args) :
                 args[i] \in Objs /\ \A j \in (i + 1)..Len(args) : args[j] \notin Objs]
    ELSE None

\* find_shared: the first dict among the positional arguments, else None
find_shared(args) ==
    IF \E i \in 1..Len(args) : args[i] \in Objs
    THEN args[CHOOSE i \in 1..Len(args) :
                 args[i] \in Objs /\ \A j \in 1..(i - 1) : args[j] \notin Objs]
    ELSE None

\* bool(x) of a value that is None or a reference to a dict object
Truthy(ref, h) == ref # None /\ DOMAIN h[ref] # {}

\* dict.update: d with every item of e written over it
DictUpdate(d, e) ==
    [k \in DOMAIN d \cup DOMAIN e |-> IF k \in DOMAIN e THEN e[k] ELSE d[k]]

\* shared.clear(); shared.update(snapshot): both act on live objects, so the
\* update reads the snapshot object as it is after the clear
ReplayInto(h, shared, snap) ==
    LET h1 == [h EXCEPT ![shared] = EmptyDict]
    IN  [h1 EXCEPT ![shared] = DictUpdate(h1[shared], h1[snap])]

\* the exception json.dumps raises on one value, "ok" when it encodes it
DumpsOne(v) ==
    CASE v = "handle" -> "TypeError"
      [] v = "ovf"    -> "OverflowError"
      [] v = "cyc"    -> "ValueError"
      [] OTHER        -> "ok"

\* json.dumps({"args": args, "kwargs": kwargs}): the encoder walks args, then
\* kwargs, and raises at the first value it cannot encode
DumpsOutcome(args, kwargs) ==
    LET all == IF kwargs = "none" THEN args ELSE Append(args, kwargs)
        bad == {i \in 1..Len(all) : DumpsOne(all[i]) # "ok"}
    IN  IF bad = {} THEN "ok"
        ELSE DumpsOne(all[CHOOSE i \in bad : \A j \in bad : i <= j])

\* the except clause of the serializability test
Caught(exc) == exc \in {"TypeError", "OverflowError"}

\* a value held by reference, and str(value): text fixed when it is built
LiveArg(v) == [kind |-> "obj", id |-> v, text |-> EmptyDict]
StrArg(v, h) == [kind |-> "str", id |-> v,
                 text |-> IF v \in Objs THEN h[v] ELSE EmptyDict]

\* inputs = {"args": args, "kwargs": kwargs}, or the string fallback
MakeInputs(args, kwargs, h) ==
    LET kw == IF kwargs = "none" THEN <<>> ELSE <<kwargs>>
    IN  IF DumpsOutcome(args, kwargs) = "ok"
        THEN [args |-> [i \in 1..Len(args) |-> LiveArg(args[i])],
              kwargs |-> [i \in 1..Len(kw) |-> LiveArg(kw[i])],
              unserializable |-> FALSE]
        ELSE [args |-> [i \in 1..Len(args) |-> StrArg(args[i], h)],
              kwargs |-> [i \in 1..Len(kw) |-> StrArg(kw[i], h)],
              unserializable |-> TRUE]

\* --------------------------------------------------------- state_manager.py
RUN == "NodeStatus.RUN"
CACHED == "NodeStatus.CACHED"
NoTime == 0 - 1     \* a timestamp argument that is None

\* Checkpoint.__init__: `x or default` replaces every falsy x
Checkpoint(sid, inputs, output, execution_time, timestamp, status, error, shared_store_state, now, h) ==
    [session_id |-> sid,
     inputs |-> inputs,
     output |-> output,
     execution_time |-> execution_time,
     timestamp |-> IF timestamp = NoTime \/ timestamp = 0 THEN now ELSE timestamp,
     status |-> IF status = None \/ status = "" THEN RUN ELSE status,
     error |-> IF error = None \/ error = "" THEN None ELSE error,
     shared_store_state |->
        IF Truthy(shared_store_state, h) THEN shared_store_state ELSE None]

\* a checkpoint stamped with the session id of the first run
NewCheckpointFirstSession(sid, inputs, output, shared, now, h) ==
    Checkpoint(1, inputs, output, 1, NoTime, RUN, None, shared, now, h)

\* add_checkpoint, line 98: Checkpoint(self.session_id, inputs, output,
\* execution_time, shared_store_state=shared_store_state); timestamp, status
\* and error take the constructor's defaults
NewCheckpoint(sid, inputs, output, shared, now, h) ==
    Checkpoint(sid, inputs, output, 1, NoTime, RUN, None, shared, now, h)

\* a lookup that returns checkpoints[0], the oldest checkpoint
get_checkpoint_first(nd, n) ==
    IF n \in DOMAIN nd /\ Len(nd[n]) > 0 THEN <<nd[n][1]>> ELSE <<>>

\* StateManager.get_checkpoint: <<>> for None, else <<latest checkpoint>>
get_checkpoint(nd, n) ==
    IF n \in DOMAIN nd /\ Len(nd[n]) > 0 THEN <<nd[n][Len(nd[n])]>> ELSE <<>>

\* appending under a bug that replaces the history instead of extending it
add_checkpoint_replacing(nd, n, cp) ==
    [m \in DOMAIN nd \cup {n} |-> IF m = n THEN <<cp>> ELSE nd[m]]

\* appending under a bug that files every checkpoint under the node A.prep
add_checkpoint_misfiled(nd, n, cp) ==
    [m \in DOMAIN nd \cup {"A.prep"} |->
        IF m = "A.prep"
        THEN Append(IF "A.prep" \in DOMAIN nd THEN nd["A.prep"] ELSE <<>>, cp)
        ELSE nd[m]]

\* appending under a bug that puts the new checkpoint first
add_checkpoint_prepending(nd, n, cp) ==
    [m \in DOMAIN nd \cup {n} |->
        IF m = n THEN <<cp>> \o (IF n \in DOMAIN nd THEN nd[n] ELSE <<>>)
        ELSE nd[m]]

\* appending under a bug that appends the new checkpoint twice
add_checkpoint_doubling(nd, n, cp) ==
    [m \in DOMAIN nd \cup {n} |->
        IF m = n THEN (IF n \in DOMAIN nd THEN nd[n] ELSE <<>>) \o <<cp, cp>>
        ELSE nd[m]]

\* StateManager.add_checkpoint: the node map after the append
add_checkpoint(nd, n, cp) ==
    [m \in DOMAIN nd \cup {n} |->
        IF m = n THEN Append(IF n \in DOMAIN nd THEN nd[n] ELSE <<>>, cp)
        ELSE nd[m]]

\* ------------------------------------------------- persistence (to_file, load)
\* what the path holds: no file, an empty (truncated) file, a JSON string, or
\* a JSON object {"session_id": .., "nodes": [{"id": .., "checkpoints": [..]}]}
AbsentFile == [kind |-> "absent", session_id |-> 0, nodes |-> <<>>]
TruncatedFile == [kind |-> "truncated", session_id |-> 0, nodes |-> <<>>]
StringDoc(sid) == [kind |-> "string", session_id |-> sid, nodes |-> <<>>]
ObjectDoc(sid, nds) == [kind |-> "object", session_id |-> sid, nodes |-> nds]

\* StateManager.to_json: json.dumps(self.nodes) raises TypeError as soon as
\* the map holds a Node object; on an empty map the result is a str whose
\* "nodes" member is itself the str "{}"
to_json(nd, sid) ==
    IF DOMAIN nd # {} THEN [raised |-> "TypeError", text |-> StringDoc(sid)]
    ELSE [raised |-> None, text |-> StringDoc(sid)]

\* StateManager.to_file: open(path, "w") truncates the file before to_json
\* runs; json.dump of the str writes a JSON string
to_file(nd, sid) ==
    LET j == to_json(nd, sid)
    IN  IF j.raised # None THEN [raised |-> j.raised, file |-> TruncatedFile]
        ELSE [raised |-> None, file |-> j.text]

\* the inputs member of a hand-written document
DocInputs == [args |-> <<>>, kwargs |-> <<>>, unserializable |-> FALSE]

DocCheckpoint(out, ts, st, err, snap) ==
    [session_id |-> 1, inputs |-> DocInputs, output |-> out,
     execution_time |-> 1, timestamp |-> ts, status |-> st, error |-> err,
     shared_store_state |-> snap]

\* a key the document does not have
Missing == "<missing>"

\* a document with the one node A.prep holding the one checkpoint cp
OneNodeDoc(cp) == ObjectDoc(1, <<[id |-> "A.prep", checkpoints |-> <<cp>>]>>)

\* documents in the persisted file format, as another writer of the format
\* leaves them at the path: status by its string value, the optional members
\* error and shared_store_state absent (null), empty, or present
Documents ==
    {ObjectDoc(1, <<>>),
     OneNodeDoc(DocCheckpoint("out1", 1, "run", None, <<[x |-> 1]>>)),
     OneNodeDoc(DocCheckpoint("out1", 1, "cached", None, <<[x |-> 1]>>)),
     OneNodeDoc(DocCheckpoint("out1", 1, "run", "boom", <<>>)),
     OneNodeDoc(DocCheckpoint("out1", 1, "cached", "", <<EmptyDict>>)),
     ObjectDoc(1, <<[id |-> "B.prep",
                     checkpoints |-> <<DocCheckpoint("out2", 1, "run", None, <<>>),
                                       DocCheckpoint("out1", 2, "run", None, <<>>)>>]>>)}

\* documents that break the format: a zero timestamp, a null timestamp and
\* status, an unknown status, a checkpoint without "output", and a node
\* without "id" that follows a valid node
BadDocuments ==
    {OneNodeDoc(DocCheckpoint("out1", 0, "run", None, <<[x |-> 1]>>)),
     OneNodeDoc(DocCheckpoint("out1", NoTime, None, None, <<>>)),
     OneNodeDoc(DocCheckpoint("out1", 1, "bogus", None, <<>>)),
     OneNodeDoc(DocCheckpoint(Missing, 1, "run", None, <<>>)),
     ObjectDoc(1, <<[id |-> "A.prep",
                     checkpoints |-> <<DocCheckpoint("out2", 1, "run", None, <<>>)>>],
                    [id |-> Missing, checkpoints |-> <<>>]>>)}

\* node["id"], cp["output"], cp["status"] or cp["error"] of a key that is
\* not there
DocKeyError(f) ==
    \E i \in 1..Len(f.nodes) :
        \/ f.nodes[i].id = Missing
        \/ \E j \in 1..Len(f.nodes[i].checkpoints) :
              LET cp == f.nodes[i].checkpoints[j]
              IN  Missing \in {cp.output, cp.status, cp.error}

\* the checkpoints a node of the document is loaded as: seven positional
\* arguments, shared_store_state is not passed
LoadCheckpoints(cps, now, h) ==
    [i \in 1..Len(cps) |->
        Checkpoint(cps[i].session_id, cps[i].inputs, cps[i].output,
                   cps[i].execution_time, cps[i].timestamp, cps[i].status,
                   cps[i].error, None, now, h)]

\* StateManager.checkpoints_from_file: the exception raised, or the new node
\* map (a later node with the same id replaces an earlier one)
checkpoints_from_file(f, now, h) ==
    CASE f.kind = "absent"    -> [raised |-> "FileNotFoundError", nodes |-> EmptyMap]
      [] f.kind = "truncated" -> [raised |-> "JSONDecodeError", nodes |-> EmptyMap]
      [] f.kind = "string"    -> [raised |-> "TypeError", nodes |-> EmptyMap]
      [] f.kind = "object" /\ DocKeyError(f) ->
                                 [raised |-> "KeyError", nodes |-> EmptyMap]
      [] OTHER ->
            LET ids == {f.nodes[i].id : i \in 1..Len(f.nodes)}
                lastOf(id) == CHOOSE i \in 1..Len(f.nodes) :
                                 /\ f.nodes[i].id = id
                                 /\ \A j \in 1..Len(f.nodes) :
                                        f.nodes[j].id = id => j <= i
            IN  [raised |-> None,
                 nodes |-> [id \in ids |->
                              LoadCheckpoints(f.nodes[lastOf(id)].checkpoints, now, h)]]

\* a loader that keeps the nodes the document does not mention
NodesAfterLoadMerging(nd, r) ==
    IF r.raised # None THEN nd
    ELSE [m \in DOMAIN nd \cup DOMAIN r.nodes |->
            IF m \in DOMAIN r.nodes THEN r.nodes[m] ELSE nd[m]]

\* a loader that assigns self.nodes whether or not the document was read
NodesAfterLoadAlways(nd, r) == r.nodes

\* checkpoints_from_file, line 73: `self.nodes = {...}` is one assignment,
\* made only when the whole comprehension was evaluated without an exception
NodesAfterLoad(nd, r) == IF r.raised # None THEN nd ELSE r.nodes

\* ----------------------------------------------------- flow.py and nodes.py
\* the most steps a plan of the planner has
MaxSteps == 2

WfNodes == {"planner", "executor", "judge", "finalizer", "human_review",
            "error_handler"}
Methods == {"prep", "exec", "post"}

\* create_norma_agent_flow: the (action, successor) pairs each node was given
\* by `node - "action" >> successor`
successors ==
    [n \in WfNodes |->
        CASE n = "planner" -> {<<"execute", "executor">>, <<"error", "error_handler">>}
          [] n = "executor" -> {<<"judge", "judge">>, <<"execute", "executor">>}
          [] n = "judge" -> {<<"execute", "executor">>, <<"plan", "planner">>,
                             <<"finalize", "finalizer">>,
                             <<"human_review", "human_review">>,
                             <<"error", "error_handler">>}
          [] OTHER -> {<<"completed", None>>, <<"default", None>>}]

\* Flow.get_next_node: curr.successors.get(action or "default"); the flow
\* ends when the node has no successor for the action
get_next_node(curr, action) ==
    IF \E e \in successors[curr] : e[1] = action
    THEN (CHOOSE e \in successors[curr] : e[1] = action)[2]
    ELSE None

\* the shared store: the keys it has, the value of "plan" (<<>> for None,
\* else the number of steps and current_step_index) and of "status"
Plan(n, i) == <<[steps |-> n, current_step_index |-> i]>>
MainShared ==
    [keys |-> {"user_query", "status", "plan", "scratchpad", "execution_history",
               "step_results", "final_answer", "error"},
     plan |-> <<>>, status |-> "planning"]
\* the store after shared.clear()
ClearedShared == [keys |-> {}, plan |-> <<>>, status |-> None]
\* bool(shared)
WfTruthy(s) == s.keys # {}
\* shared["status"] = st
SetStatus(s, st) == [s EXCEPT !.keys = @ \cup {"status"}, !.status = st]
\* shared["status"] = "error"; shared["error"] = ...
SetError(s) == [SetStatus(s, "error") EXCEPT !.keys = @ \cup {"error"}]
\* plan["current_step_index"] += 1
Advance(s) ==
    [s EXCEPT !.plan = Plan(s.plan[1].steps, s.plan[1].current_step_index + 1)]

\* what a method call gives: a value returned, or an exception
Ret(s, a) == [shared |-> s, action |-> a, raised |-> None]
Raise(s, x) == [shared |-> s, action |-> None, raised |-> x]
\* reading shared["plan"] and then an item of it
PlanError(s) ==
    IF "plan" \notin s.keys THEN "KeyError"
    ELSE IF s.plan = <<>> THEN "TypeError" ELSE None

\* the result of an exec: its kind, and for a plan the number of its steps
R(k) == [kind |-> k, steps |-> 0]

\* the keys a prep reads with shared[...]
PrepReads(n) ==
    CASE n = "planner" -> {"user_query"}
      [] n = "executor" -> {"plan"}
      [] n = "judge" -> {"plan", "user_query", "step_results", "scratchpad",
                         "execution_history"}
      [] n = "finalizer" -> {"step_results", "user_query", "plan"}
      [] n = "human_review" -> {"execution_history", "step_results"}
      [] OTHER -> {}

\* the prep methods: PlannerNode.prep and ErrorNode.prep return a str,
\* ExecutorNode.prep the current step or None when the index has reached the
\* number of steps, the others a new dict
prep(n, s) ==
    IF ~(PrepReads(n) \subseteq s.keys) THEN Raise(s, "KeyError")
    ELSE IF n \in {"executor", "judge", "finalizer"} /\ s.plan = <<>>
    THEN Raise(s, "TypeError")
    ELSE Ret(s, CASE n \in {"planner", "error_handler"} -> "str"
                  [] n = "executor" ->
                        IF s.plan[1].current_step_index >= s.plan[1].steps
                        THEN None ELSE "step"
                  [] OTHER -> "dict")

\* what the exec methods can return: the planner's parsed answer (an error, a
\* dict without "plan", a plan), the executor's step result, the judge's
\* decision (after its retries the parsed answer has no "error"), the
\* finalizer's parsed answer
ExecOutputs(n, p) ==
    CASE n = "planner" ->
            {R("error"), R("no plan")}
            \cup {[kind |-> "plan", steps |-> k] : k \in 0..MaxSteps}
      [] n = "executor" ->
            IF p = None THEN {R("completed")}
            ELSE {R("success"), R("failure"), R("PARSE_FAILED")}
      [] n = "judge" ->
            {R("CONTINUE"), R("REPLAN"), R("FINALIZE"), R("REQUEST_HUMAN_REVIEW"),
             R("no decision"), R("other decision")}
      [] n = "finalizer" -> {R("error"), R("no final_response"), R("final_response")}
      [] n = "human_review" -> {R("human_review_requested")}
      [] OTHER -> {R("error_handled")}

\* PlannerNode.post
PlannerNode_post(s, e) ==
    IF e.kind \in {None, "error", "no plan"} THEN Ret(SetError(s), "error")
    ELSE Ret([keys |-> s.keys \cup {"plan", "scratchpad", "context_analysis",
                                    "status", "execution_history", "step_results"},
              plan |-> Plan(e.steps, 0), status |-> "executing"],
             "execute")

\* ExecutorNode.post
ExecutorNode_post(s, p, e) ==
    IF PlanError(s) # None THEN Raise(s, PlanError(s))
    ELSE IF p = None THEN Ret(SetStatus(s, "judging_final"), "judge")
    ELSE LET next == IF Advance(s).plan[1].current_step_index >= s.plan[1].steps
                     THEN "judge" ELSE "execute"
             lists == {"step_results", "execution_history"} \subseteq s.keys
         IN  IF e.kind = "PARSE_FAILED"
             THEN IF lists THEN Ret(Advance(s), next)
                  ELSE Raise(Advance(s), "KeyError")
             ELSE IF ~lists THEN Raise(s, "KeyError")
             ELSE IF e.kind = "completed" THEN Ret(s, "judge")
             ELSE IF e.kind = "success" THEN Ret(Advance(s), next)
             ELSE Ret(SetStatus(s, "judging"), "judge")

\* JudgeNode.post
JudgeNode_post(s, e) ==
    CASE e.kind \in {None, "error", "no decision"} -> Ret(SetError(s), "error")
      [] e.kind = "CONTINUE" ->
            IF PlanError(s) # None THEN Raise(s, PlanError(s))
            ELSE Ret(SetStatus(Advance(s), "executing"), "execute")
      [] e.kind = "REPLAN" -> Ret(SetStatus(s, "planning"), "plan")
      [] e.kind = "FINALIZE" -> Ret(SetStatus(s, "finalizing"), "finalize")
      [] e.kind = "REQUEST_HUMAN_REVIEW" ->
            Ret([SetStatus(s, "human_review_required")
                    EXCEPT !.keys = @ \cup {"human_review_reason"}],
                "human_review")
      [] OTHER -> Ret(SetError(s), "error")

\* FinalizerNode.post
FinalizerNode_post(s, e) ==
    IF e.kind \in {"error", "no final_response"} THEN Ret(SetError(s), "error")
    ELSE Ret([SetStatus(s, "completed")
                 EXCEPT !.keys = @ \cup {"final_answer", "sources", "limitations",
                                         "recommendations"}],
             "completed")

\* HumanReviewNode.post
HumanReviewNode_post(s) ==
    Ret([s EXCEPT !.keys = @ \cup {"human_review_result"}], "completed")

\* ErrorNode.post
ErrorNode_post(s) == Ret([s EXCEPT !.keys = @ \cup {"error_handled"}], "completed")

\* the post method of node n
post(n, s, p, e) ==
    CASE n = "planner" -> PlannerNode_post(s, e)
      [] n = "executor" -> ExecutorNode_post(s, p, e)
      [] n = "judge" -> JudgeNode_post(s, e)
      [] n = "finalizer" -> FinalizerNode_post(s, e)
      [] n = "human_review" -> HumanReviewNode_post(s)
      [] OTHER -> ErrorNode_post(s)

\* the wrapper's test `cached_checkpoint and cached_checkpoint.shared_store_state`
\* for a workflow method: the snapshot of a prep or post checkpoint is the
\* shared store itself, that of an exec checkpoint the dict prep returned
WfHit(c, s) ==
    /\ c # <<>>
    /\ \/ c[1].snap = "shared" /\ WfTruthy(s)
       \/ c[1].snap = "prep_res"

\* ------------------------------------------------------------------- state
\* no checkpoints_from_file call was just made
NoLoad == "no load"
NoCall == [func |-> Callable(None, None), node |-> None, args |-> <<>>,
           kwargs |-> "none", cached |-> <<>>, output |-> None, inv0 |-> 0,
           cp |-> <<>>]
NoOutcome == [path |-> "none", ret |-> None]
NothingPersisted == [run |-> 0, held |-> [n \in NodeIds |-> <<>>]]

\* the wrapper's test `cached_checkpoint and cached_checkpoint.shared_store_state`
Hit(c, h) == c # <<>> /\ Truthy(c[1].shared_store_state, h)

\* a call of n's wrapper made now would take the REPLAY path
WouldReplay(n) == Hit(get_checkpoint(nodes, n), heap)

Quiet == \A t \in Threads : pc[t] = "idle"

\* pristine after object o was written to
Touch(p, o, nd) ==
    [n \in NodeIds |->
        p[n] /\ find_shared([i \in 1..Len(nd[n][Len(nd[n])].inputs.args) |->
                                nd[n][Len(nd[n])].inputs.args[i].id]) # o]

Init ==
    /\ heap \in [Objs -> {EmptyDict, [x |-> 1]}]
    /\ nodes = EmptyMap
    /\ session_id = 1
    /\ clock = 1
    /\ file = AbsentFile
    /\ pc = [t \in Threads |-> "idle"]
    /\ call = [t \in Threads |-> NoCall]
    /\ ncalls = [t \in Threads |-> 0]
    /\ run = 1
    /\ invoked = [n \in NodeIds |-> 0]
    /\ last = [n \in NodeIds |-> NoOutcome]
    /\ pristine = [n \in NodeIds |-> FALSE]
    /\ truth = EmptyMap
    /\ persisted = NothingPersisted
    /\ loaded = FALSE
    /\ load_raised = NoLoad
    /\ recorded = [n \in NodeIds |-> 0]
    /\ wf_shared = MainShared
    /\ wf_curr = "planner"
    /\ wf_at = "prep"
    /\ wf_prep_res = None
    /\ wf_exec_res = R(None)
    /\ wf_cached = [q \in WfNodes \X Methods |-> <<>>]
    /\ wf_last = [node |-> None, action |-> None]
    /\ wf_ran = <<>>
    /\ wf_raised = None

\* a wrapper that takes the lock before it runs the callable and keeps it
\* until add_checkpoint has returned
LockHeldThroughCall == \A t \in Threads : pc[t] \notin {"exec", "ret", "append"}

\* the manager's lock is held by the thread that is inside add_checkpoint
LockFree == \A t \in Threads : pc[t] # "append"

\* wrapper, lines 21-26: thread t calls the wrapper of func; node_id and
\* get_checkpoint(node_id), which takes the lock
Enter(t, func, a) ==
    /\ pc[t] = "idle"
    /\ ncalls[t] < MaxCalls
    /\ LockFree
    /\ pc' = [pc EXCEPT ![t] = "check"]
    /\ call' = [call EXCEPT ![t] =
                  [func |-> func, node |-> node_id(func),
                   args |-> a.args, kwargs |-> a.kwargs,
                   cached |-> get_checkpoint(nodes, node_id(func)),
                   output |-> None, inv0 |-> invoked[node_id(func)],
                   cp |-> <<>>]]
    /\ ncalls' = [ncalls EXCEPT ![t] = @ + 1]
    /\ UNCHANGED <<heap, nodes, session_id, clock, file, run, invoked, last,
                   pristine, truth, persisted, loaded, load_raised,
                   recorded, wfvars>>

\* wrapper, lines 27-32: on a hit restore the collaborator and return the
\* stored output; on a miss go on to execute the callable
Decide(t) ==
    /\ pc[t] = "check"
    /\ LET c == call[t].cached
           n == call[t].node
           shared == find_shared(call[t].args)
       IN  IF Hit(c, heap)
           THEN /\ heap' = IF shared # None
                           THEN ReplayInto(heap, shared, c[1].shared_store_state)
                           ELSE heap
                /\ pc' = [pc EXCEPT ![t] = "idle"]
                /\ call' = [call EXCEPT ![t] = NoCall]
                /\ last' = [last EXCEPT ![n] = [path |-> "replay", ret |-> c[1].output]]
                /\ pristine' = IF shared # None THEN Touch(pristine, shared, nodes)
                               ELSE pristine
           ELSE /\ pc' = [pc EXCEPT ![t] = "exec"]
                /\ UNCHANGED <<heap, call, last, pristine>>
    /\ UNCHANGED <<nodes, session_id, clock, file, ncalls, run, invoked, truth,
                   persisted, loaded, load_raised, recorded,
                   wfvars>>

\* wrapper, lines 35-39: the callable runs; it may leave the first dict among
\* its positional arguments with any contents c, and it returns o or raises
\* (after its writes)
Execute(t, c, o, raises) ==
    /\ pc[t] = "exec"
    /\ LET n == call[t].node
           shared == find_shared(call[t].args)
       IN  /\ shared = None => c = EmptyDict
           /\ heap' = IF shared # None THEN [heap EXCEPT ![shared] = c] ELSE heap
           /\ invoked' = [invoked EXCEPT ![n] = @ + 1]
           /\ pristine' = IF shared # None /\ c # heap[shared]
                          THEN Touch(pristine, shared, nodes) ELSE pristine
           /\ IF raises
              THEN /\ o = "out1"
                   /\ pc' = [pc EXCEPT ![t] = "idle"]
                   /\ call' = [call EXCEPT ![t] = NoCall]
                   /\ last' = [last EXCEPT ![n] = [path |-> "raise", ret |-> "Exception"]]
              ELSE /\ pc' = [pc EXCEPT ![t] = "ret"]
                   /\ call' = [call EXCEPT ![t].output = o]
                   /\ last' = last
    /\ UNCHANGED <<nodes, session_id, clock, file, ncalls, run, truth, persisted,
                   loaded, load_raised, recorded, wfvars>>

\* wrapper, lines 43-52: serializability test with its fallback, find_shared,
\* add_checkpoint, return output; an exception the except clause does not
\* name leaves the wrapper
Record(t) ==
    /\ pc[t] = "ret"
    /\ LET n == call[t].node
           shared == find_shared(call[t].args)
           exc == DumpsOutcome(call[t].args, call[t].kwargs)
           cp == NewCheckpoint(session_id,
                               MakeInputs(call[t].args, call[t].kwargs, heap),
                               call[t].output, shared, clock, heap)
       IN  IF exc # "ok" /\ ~Caught(exc)
           THEN /\ last' = [last EXCEPT ![n] = [path |-> "abort", ret |-> exc]]
                /\ UNCHANGED <<nodes, clock, truth, pristine, loaded, load_raised,
                             recorded>>
           ELSE /\ nodes' = add_checkpoint(nodes, n, cp)
                /\ truth' = add_checkpoint(truth, n,
                                IF shared # None THEN <<heap[shared]>> ELSE <<>>)
                /\ clock' = clock + 1
                /\ last' = [last EXCEPT ![n] = [path |-> "record", ret |-> call[t].output]]
                /\ pristine' = [pristine EXCEPT ![n] = shared # None]
                /\ loaded' = FALSE
                /\ load_raised' = NoLoad
                /\ recorded' = [recorded EXCEPT ![n] = @ + 1]
    /\ pc' = [pc EXCEPT ![t] = "idle"]
    /\ call' = [call EXCEPT ![t] = NoCall]
    /\ UNCHANGED <<heap, session_id, file, ncalls, run, invoked, persisted,
                   wfvars>>

\* wrapper, lines 41-49, and add_checkpoint, lines 97-100, where other
\* threads use the manager too: the serializability test, then, once the
\* lock is free, the Checkpoint is built and the Node created if absent
AddBegin(t) ==
    /\ pc[t] = "ret"
    /\ LET n == call[t].node
           shared == find_shared(call[t].args)
           exc == DumpsOutcome(call[t].args, call[t].kwargs)
           cp == NewCheckpoint(session_id,
                               MakeInputs(call[t].args, call[t].kwargs, heap),
                               call[t].output, shared, clock, heap)
       IN  IF exc # "ok" /\ ~Caught(exc)
           THEN /\ last' = [last EXCEPT ![n] = [path |-> "abort", ret |-> exc]]
                /\ pc' = [pc EXCEPT ![t] = "idle"]
                /\ call' = [call EXCEPT ![t] = NoCall]
                /\ nodes' = nodes
           ELSE /\ LockFree
                /\ nodes' = IF n \in DOMAIN nodes THEN nodes
                            ELSE [m \in DOMAIN nodes \cup {n} |->
                                    IF m = n THEN <<>> ELSE nodes[m]]
                /\ pc' = [pc EXCEPT ![t] = "append"]
                /\ call' = [call EXCEPT ![t].cp = <<cp>>]
                /\ last' = last
    /\ UNCHANGED <<heap, session_id, clock, file, ncalls, run, invoked, pristine,
                   truth, persisted, loaded, load_raised,
                   recorded, wfvars>>

\* add_checkpoint, line 101, and wrapper, line 52: self.nodes[node_id] is
\* looked up again (KeyError when the map no longer has the node), the
\* checkpoint is appended, the lock released and the output returned
AddAppend(t) ==
    /\ pc[t] = "append"
    /\ LET n == call[t].node
           shared == find_shared(call[t].args)
       IN  IF n \notin DOMAIN nodes
           THEN /\ last' = [last EXCEPT ![n] = [path |-> "abort", ret |-> "KeyError"]]
                /\ UNCHANGED <<nodes, clock, truth, pristine, loaded, load_raised,
                             recorded>>
           ELSE /\ nodes' = add_checkpoint(nodes, n, call[t].cp[1])
                /\ truth' = add_checkpoint(truth, n,
                                IF shared # None THEN <<heap[shared]>> ELSE <<>>)
                /\ clock' = clock + 1
                /\ last' = [last EXCEPT ![n] = [path |-> "record", ret |-> call[t].output]]
                /\ pristine' = [pristine EXCEPT ![n] = shared # None]
                /\ loaded' = FALSE
                /\ load_raised' = NoLoad
                /\ recorded' = [recorded EXCEPT ![n] = @ + 1]
    /\ pc' = [pc EXCEPT ![t] = "idle"]
    /\ call' = [call EXCEPT ![t] = NoCall]
    /\ UNCHANGED <<heap, session_id, file, ncalls, run, invoked, persisted,
                   wfvars>>

\* the caller's own code, on thread t and outside any wrapper call, writes
\* to one of its dicts
CallerMutate(t, o, c) ==
    /\ pc[t] = "idle"
    /\ c # heap[o]
    /\ heap' = [heap EXCEPT ![o] = c]
    /\ pristine' = Touch(pristine, o, nodes)
    /\ UNCHANGED <<nodes, session_id, clock, file, pc, call, ncalls, run, invoked,
                   last, truth, persisted, loaded, load_raised,
                   recorded, wfvars>>

\* the replayable checkpoints of the store: per node, output and live
\* contents of the snapshot of its latest checkpoint
Replayable(nd, h) ==
    [n \in NodeIds |->
        IF Hit(get_checkpoint(nd, n), h)
        THEN <<[output |-> get_checkpoint(nd, n)[1].output,
                contents |-> h[get_checkpoint(nd, n)[1].shared_store_state]]>>
        ELSE <<>>]

\* state_manager.to_file(path), called by thread t between wrapper calls
ToFile(t) ==
    /\ pc[t] = "idle"
    /\ file' = to_file(nodes, session_id).file
    /\ persisted' = [run |-> run, held |-> Replayable(nodes, heap)]
    /\ loaded' = FALSE
    /\ load_raised' = NoLoad
    /\ UNCHANGED <<heap, nodes, session_id, clock, pc, call, ncalls, run, invoked,
                   last, pristine, truth, recorded, wfvars>>

\* state_manager.checkpoints_from_file(path), called by thread t between
\* wrapper calls: self.nodes is assigned only when the whole document was read
Load(t) ==
    /\ pc[t] = "idle"
    /\ LET r == checkpoints_from_file(file, clock, heap)
       IN  /\ nodes' = NodesAfterLoad(nodes, r)
           /\ load_raised' = r.raised
           /\ IF r.raised # None
              THEN UNCHANGED <<truth, last, pristine>>
              ELSE /\ truth' = [n \in DOMAIN r.nodes |->
                                  [i \in 1..Len(r.nodes[n]) |-> <<>>]]
                   /\ last' = [n \in NodeIds |-> NoOutcome]
                   /\ pristine' = [n \in NodeIds |-> FALSE]
    /\ loaded' = (persisted.run > 0 /\ persisted.run < run)
    /\ UNCHANGED <<heap, session_id, clock, file, pc, call, ncalls, run, invoked,
                   persisted, recorded, wfvars>>

\* another writer of the file format leaves a document at the path
WriteDocument(d) ==
    /\ file # d
    /\ file' = d
    /\ persisted' = NothingPersisted
    /\ loaded' = FALSE
    /\ load_raised' = NoLoad
    /\ UNCHANGED <<heap, nodes, session_id, clock, pc, call, ncalls, run, invoked,
                   last, pristine, truth, recorded, wfvars>>

\* the process ends and a later run starts: StateManager.__init__ builds the
\* module's singleton anew; the file stays
Restart ==
    /\ Quiet
    /\ run < MaxRuns
    /\ run' = run + 1
    /\ nodes' = EmptyMap
    /\ clock' = clock + 1
    /\ session_id' = clock + 1
    /\ invoked' = [n \in NodeIds |-> 0]
    /\ last' = [n \in NodeIds |-> NoOutcome]
    /\ pristine' = [n \in NodeIds |-> FALSE]
    /\ truth' = EmptyMap
    /\ loaded' = FALSE
    /\ load_raised' = NoLoad
    /\ recorded' = [n \in NodeIds |-> 0]
    /\ UNCHANGED <<heap, file, pc, call, ncalls, persisted, wfvars>>

\* a program that calls its instrumented callables in sequence and writes
\* to its dicts between the calls
Next ==
    \/ \E f \in NodesModule, a \in CallArgs : Enter("t1", f, a)
    \/ Decide("t1")
    \/ \E c \in Contents, o \in Outputs, raises \in BOOLEAN : Execute("t1", c, o, raises)
    \/ Record("t1")
    \/ \E o \in Objs, c \in Contents : CallerMutate("t1", o, c)

Spec == Init /\ [][Next]_vars

\* the same program over several runs, persisting and loading its store
PersistArgs == {Args(<<"42">>, "none"), Args(<<"d1">>, "none")}
PersistNext ==
    \/ \E a \in PersistArgs : Enter("t1", Callable("nodes", "A.prep"), a)
    \/ Decide("t1")
    \/ \E c \in Contents, o \in Outputs, raises \in BOOLEAN : Execute("t1", c, o, raises)
    \/ Record("t1")
    \/ ToFile("t1")
    \/ Load("t1")
    \/ \E d \in Documents \cup BadDocuments : WriteDocument(d)
    \/ Restart

\* the program passes d1 only; its other dict stays empty
PersistInit == Init /\ heap["d2"] = EmptyDict

PersistSpec == PersistInit /\ [][PersistNext]_vars

\* two threads, each calling its own instrumented callable: t1 calls
\* nodes.A.prep, which returns "out1", and t2 calls nodes.B.prep, which
\* returns "out2"; both may pass the dict d1
ConcCallable(t) == IF t = "t1" THEN Callable("nodes", "A.prep")
                   ELSE Callable("nodes", "B.prep")
ConcOutput(t) == IF t = "t1" THEN "out1" ELSE "out2"
ConcArgs == {Args(<<"42">>, "none"), Args(<<"d1">>, "none")}
ConcNext ==
    \/ \E t \in Threads, a \in ConcArgs : Enter(t, ConcCallable(t), a)
    \/ \E t \in Threads : Decide(t)
    \/ \E t \in Threads, c \in Contents : Execute(t, c, ConcOutput(t), FALSE)
    \/ \E t \in Threads : AddBegin(t)
    \/ \E t \in Threads : AddAppend(t)

ConcSpec == Init /\ [][ConcNext]_vars

\* thread t1 calls nodes.A.prep while thread t2 exports and loads the store
LockDocuments ==
    {ObjectDoc(1, <<>>),
     OneNodeDoc(DocCheckpoint("out2", 1, "run", None, <<>>))}
LockNext ==
    \/ \E a \in ConcArgs : Enter("t1", ConcCallable("t1"), a)
    \/ Decide("t1")
    \/ \E c \in Contents : Execute("t1", c, ConcOutput("t1"), FALSE)
    \/ AddBegin("t1")
    \/ AddAppend("t1")
    \/ ToFile("t2")
    \/ Load("t2")
    \/ \E d \in LockDocuments : WriteDocument(d)

LockSpec == Init /\ [][LockNext]_vars

\* a program that calls instrumented callables of two modules in sequence;
\* each callable returns a value of its own
ScopeOutput(func) ==
    CASE func = Callable("nodes", "A.prep") -> "out1"
      [] func = Callable("nodes", "B.prep") -> "out2"
      [] OTHER -> "out3"
ScopeArgs == {Args(<<"42">>, "none"), Args(<<"d1">>, "none")}
ScopeNext ==
    \/ \E f \in Callables, a \in ScopeArgs : Enter("t1", f, a)
    \/ Decide("t1")
    \/ \E c \in Contents : Execute("t1", c, ScopeOutput(call["t1"].func), FALSE)
    \/ Record("t1")

ScopeSpec == Init /\ [][ScopeNext]_vars

\* a program whose calls of nodes.A.prep pass both of its dicts: two
\* positional dicts in either order, one positional and one by keyword, or
\* one by keyword only
FrameArgs == {Args(<<"d1", "d2">>, "none"), Args(<<"d2", "d1">>, "none"),
              Args(<<"d1">>, "d2"), Args(<<>>, "d2")}
FrameNext ==
    \/ \E a \in FrameArgs : Enter("t1", Callable("nodes", "A.prep"), a)
    \/ Decide("t1")
    \/ \E c \in Contents : Execute("t1", c, "out1", FALSE)
    \/ Record("t1")

FrameSpec == Init /\ [][FrameNext]_vars

\* the callable of nodes.A.prep calls the instrumented nodes.B.prep and
\* returns after that call has returned: t2 is the frame of the inner call,
\* or a thread the outer callable waits for
ExecuteOuter(c) ==
    /\ pc["t2"] = "idle"
    /\ Execute("t1", c, ConcOutput("t1"), FALSE)

\* the callable of the inner call runs
ExecuteInner(c) ==
    /\ pc["t2"] = "exec"
    /\ Execute("t2", c, ConcOutput("t2"), FALSE)

LiveNext ==
    \/ \E t \in Threads, a \in ConcArgs : Enter(t, ConcCallable(t), a)
    \/ \E t \in Threads : Decide(t)
    \/ \E c \in Contents : ExecuteOuter(c)
    \/ \E c \in Contents : ExecuteInner(c)
    \/ \E t \in Threads : AddBegin(t)
    \/ \E t \in Threads : AddAppend(t)

\* the steps of thread t inside a wrapper call
LiveStep(t) ==
    \/ Decide(t)
    \/ t = "t1" /\ \E c \in Contents : ExecuteOuter(c)
    \/ t = "t2" /\ \E c \in Contents : ExecuteInner(c)
    \/ AddBegin(t)
    \/ AddAppend(t)

\* a thread that can take a step of its wrapper call is scheduled; the
\* callables terminate
LiveSpec == Init /\ [][LiveNext]_vars /\ \A t \in Threads : WF_vars(LiveStep(t))

\* ---- two threads issue the first calls to the same node ----
\* every call is g(d1) of the one instrumented callable A.prep, and the
\* callable leaves d1 with contents, so each call carries a non-empty mapping
RaceCallable == Callable("nodes", "A.prep")
RaceArgs == Args(<<"d1">>, "none")
RaceContents == Contents \ {EmptyDict}
RaceNext ==
    \/ \E t \in Threads : Enter(t, RaceCallable, RaceArgs)
    \/ \E t \in Threads : Decide(t)
    \/ \E t \in Threads, c \in RaceContents : Execute(t, c, ConcOutput(t), FALSE)
    \/ \E t \in Threads : AddBegin(t)
    \/ \E t \in Threads : AddAppend(t)
RaceSpec == Init /\ [][RaceNext]_vars

\* ---- threads calling either node, with callables that may raise ----
\* a dict argument, alone or after a self-containing list whose encoding
\* raises an exception the wrapper does not catch; the callable leaves the
\* dict empty or with {"x": 1}
CountArgs == {Args(<<"d1">>, "none"), Args(<<"cyc", "d1">>, "none")}
CountContents == {EmptyDict, [x |-> 1]}
\* one thread calls either callable, the other A.prep only
CountCallables(t) == IF t = "t1" THEN NodesModule ELSE {Callable("nodes", "A.prep")}
CountNext ==
    \/ \E t \in Threads, a \in CountArgs :
          \E f \in CountCallables(t) : Enter(t, f, a)
    \/ \E t \in Threads : Decide(t)
    \/ \E t \in Threads, c \in CountContents, raises \in BOOLEAN :
          Execute(t, c, "out1", raises)
    \/ \E t \in Threads : Record(t)
CountInit == Init /\ heap = [o \in Objs |-> [x |-> 1]]
CountSpec == CountInit /\ [][CountNext]_vars

\* ---- main runs the flow on its shared store ----
\* Node._run, `p = self.prep(shared)`, through the wrapper: on a hit the
\* store is cleared and refilled from the snapshot, which is the store
\* itself, and the recorded result is returned; on a miss prep runs and its
\* call is recorded
WfPrep ==
    /\ wf_curr # None /\ wf_at = "prep" /\ wf_raised = None
    /\ LET q == <<wf_curr, "prep">>
           c == wf_cached[q]
           r == IF WfHit(c, wf_shared) THEN Ret(ClearedShared, c[1].output)
                ELSE prep(wf_curr, wf_shared)
       IN  /\ wf_shared' = r.shared
           /\ wf_raised' = r.raised
           /\ wf_prep_res' = r.action
           /\ wf_at' = IF r.raised = None THEN "exec" ELSE wf_at
           /\ wf_cached' = IF WfHit(c, wf_shared) \/ r.raised # None THEN wf_cached
                           ELSE [wf_cached EXCEPT ![q] =
                                   <<[output |-> r.action,
                                      snap |-> IF WfTruthy(r.shared) THEN "shared"
                                               ELSE None]>>]
    /\ wf_ran' = Append(wf_ran, wf_curr)
    /\ UNCHANGED <<wf_curr, wf_exec_res, wf_last, manager_vars>>

\* Node._run, `e = self._exec(p)`, through the wrapper: a dict that prep
\* returned is the mapping of the call.  On a hit that dict, which is the
\* snapshot itself because prep replayed too, is cleared and the recorded
\* result returned; on a miss exec runs and returns e
WfExec(e) ==
    /\ wf_curr # None /\ wf_at = "exec" /\ wf_raised = None
    /\ LET q == <<wf_curr, "exec">>
           c == wf_cached[q]
           isdict == wf_prep_res \in {"step", "dict", "emptied"}
       IN  IF WfHit(c, wf_shared)
           THEN /\ e = c[1].output
                /\ wf_exec_res' = e
                /\ wf_prep_res' = IF isdict THEN "emptied" ELSE wf_prep_res
                /\ wf_cached' = IF isdict
                                THEN [wf_cached EXCEPT ![q] =
                                        <<[c[1] EXCEPT !.snap = "emptied"]>>]
                                ELSE wf_cached
                /\ wf_at' = "post"
                /\ wf_raised' = None
           ELSE IF wf_prep_res = "emptied" /\ wf_curr \notin {"planner", "error_handler"}
           THEN /\ e = R("KeyError")
                /\ wf_raised' = "KeyError"
                /\ UNCHANGED <<wf_exec_res, wf_prep_res, wf_cached, wf_at>>
           ELSE /\ e \in ExecOutputs(wf_curr, wf_prep_res)
                /\ wf_exec_res' = e
                /\ wf_cached' = [wf_cached EXCEPT ![q] =
                                    <<[output |-> e,
                                       snap |-> IF wf_prep_res \in {"step", "dict"}
                                                THEN "prep_res" ELSE None]>>]
                /\ wf_at' = "post"
                /\ wf_raised' = None
                /\ wf_prep_res' = wf_prep_res
    /\ UNCHANGED <<wf_shared, wf_curr, wf_last, wf_ran, manager_vars>>

\* Node._run, `return self.post(shared, p, e)`, through the wrapper, and
\* Flow._orch, `curr = copy.copy(self.get_next_node(curr, last_action))`
WfPost ==
    /\ wf_curr # None /\ wf_at = "post" /\ wf_raised = None
    /\ LET q == <<wf_curr, "post">>
           c == wf_cached[q]
           r == IF WfHit(c, wf_shared) THEN Ret(ClearedShared, c[1].output)
                ELSE post(wf_curr, wf_shared, wf_prep_res, wf_exec_res)
       IN  /\ wf_shared' = r.shared
           /\ wf_raised' = r.raised
           /\ IF r.raised # None
              THEN UNCHANGED <<wf_curr, wf_at, wf_prep_res, wf_exec_res, wf_cached,
                               wf_last>>
              ELSE /\ wf_curr' = get_next_node(wf_curr, r.action)
                   /\ wf_at' = "prep"
                   /\ wf_prep_res' = None
                   /\ wf_exec_res' = R(None)
                   /\ wf_last' = [node |-> wf_curr, action |-> r.action]
                   /\ wf_cached' = IF WfHit(c, wf_shared) THEN wf_cached
                                   ELSE [wf_cached EXCEPT ![q] =
                                           <<[output |-> r.action,
                                              snap |-> IF WfTruthy(r.shared)
                                                       THEN "shared" ELSE None]>>]
    /\ UNCHANGED <<wf_ran, manager_vars>>

WfExecResults == UNION {ExecOutputs(n, p) : n \in WfNodes, p \in {None, "step"}}
WfNext ==
    \/ WfPrep
    \/ \E e \in WfExecResults \cup {R("KeyError")} : WfExec(e)
    \/ WfPost
WfSpec == Init /\ [][WfNext]_vars

\* ------------------------------------------------------------------ claims
\* thread t's wrapper call returns or raises in this step
Completes(t) == pc[t] # "idle" /\ pc'[t] = "idle"

Latest(nd, n) == nd[n][Len(nd[n])]
HistoryLen(nd, n) == IF n \in DOMAIN nd THEN Len(nd[n]) ELSE 0

\* the positional arguments a checkpoint's inputs were built from
RecordedArgs(cp) == [i \in 1..Len(cp.inputs.args) |-> cp.inputs.args[i].id]

\* C1 (as claimed): when the previous completed call of a node was a
\* successful RECORD, the next call of that node, whatever its arguments,
\* returns the recorded output and leaves the callable's invocation counter
\* where it was.
C1_Idempotence ==
    [][\A t \in Threads :
         (Completes(t) /\ last[call[t].node].path = "record")
         => /\ last'[call[t].node].path = "replay"
            /\ last'[call[t].node].ret = last[call[t].node].ret
            /\ invoked'[call[t].node] = call[t].inv0]_vars

\* C2 (as claimed): after a RECORD of a node with mapping A that left A with
\* contents C and returned o, A untouched since, a call of the node with
\* another mapping B returns o without running the callable and leaves B = C.
C2_SharedStateRestoration ==
    [][\A t \in Threads :
         LET n == call[t].node
             B == find_shared(call[t].args)
         IN  (/\ Completes(t)
              /\ pristine[n]
              /\ B # None
              /\ B # find_shared(RecordedArgs(Latest(nodes, n))))
             => /\ last'[n] = [path |-> "replay", ret |-> Latest(nodes, n).output]
                /\ invoked'[n] = call[t].inv0
                /\ heap'[B] = truth[n][Len(truth[n])][1]]_vars

\* C3 (as claimed): whenever a call returns on the REPLAY path, its mapping
\* collaborator holds the contents the collaborator had when the replayed
\* checkpoint was recorded, and the value returned is the recorded output.
C3_ReplayIndistinguishable ==
    [][\A t \in Threads :
         LET n == call[t].node
             shared == find_shared(call[t].args)
         IN  (Completes(t) /\ last'[n].path = "replay" /\ pc[t] = "check"
              /\ shared # None)
             => /\ heap'[shared] = truth[n][Len(truth[n])][1]
                /\ last'[n].ret = call[t].cached[1].output]_vars

\* C4 (as claimed): the snapshot of every checkpoint that has one holds the
\* contents the collaborator had when the checkpoint was appended.
C4_SnapshotIsDeepCopy ==
    \A n \in DOMAIN nodes : \A i \in 1..Len(nodes[n]) :
        nodes[n][i].shared_store_state # None
        => <<heap[nodes[n][i].shared_store_state]>> = truth[n][i]

\* C5 (as claimed): a call without a mapping among its positional arguments,
\* made right after a successful RECORD of the node that had none either,
\* returns the stored output, does not invoke the callable and appends nothing.
C5_OutputOnlyReplay ==
    [][\A t \in Threads :
         LET n == call[t].node
         IN  (/\ Completes(t)
              /\ last[n].path = "record"
              /\ find_shared(call[t].args) = None
              /\ find_shared(RecordedArgs(Latest(nodes, n))) = None)
             => /\ last'[n] = [path |-> "replay", ret |-> Latest(nodes, n).output]
                /\ invoked'[n] = call[t].inv0
                /\ nodes' = nodes]_vars

\* C6 (as claimed): once the file written by to_file from a store with a
\* replayable checkpoint of n has been loaded in a later run, a call of n
\* replays: the store's latest checkpoint of n is a hit with the persisted
\* output and the persisted shared-state contents.
C6_TimeTravelAcrossRuns ==
    loaded =>
        \A n \in NodeIds :
            persisted.held[n] # <<>>
            => /\ WouldReplay(n)
               /\ Latest(nodes, n).output = persisted.held[n][1].output
               /\ heap[Latest(nodes, n).shared_store_state]
                     = persisted.held[n][1].contents

\* C7 (as claimed): when the callable raises, the exception leaves the
\* wrapper, the node map is what it was, and the next call of the node would
\* execute the callable again.
C7_FailureLeavesNoCheckpoint ==
    [][\A t \in Threads :
         LET n == call[t].node
         IN  (pc[t] = "exec" /\ pc'[t] = "idle")
             => /\ last'[n] = [path |-> "raise", ret |-> "Exception"]
                /\ nodes' = nodes
                /\ ~Hit(get_checkpoint(nodes', n), heap')]_vars

\* C8: a wrapper call that returns after invoking the callable appends
\* exactly one checkpoint, at the end of its own node's history, and changes
\* no other history; a call that replays, and every other step of a wrapper
\* call, leaves the node map as it is.
C8_OneCheckpointPerRecord ==
    [][\A t \in Threads :
         pc'[t] # pc[t]
         => IF pc[t] = "ret" /\ last'[call[t].node].path = "record"
            THEN LET n == call[t].node
                 IN  /\ DOMAIN nodes' = DOMAIN nodes \cup {n}
                     /\ Len(nodes'[n]) = HistoryLen(nodes, n) + 1
                     /\ \A i \in 1..HistoryLen(nodes, n) : nodes'[n][i] = nodes[n][i]
                     /\ Latest(nodes', n).output = call[t].output
                     /\ \A m \in DOMAIN nodes : m # n => nodes'[m] = nodes[m]
            ELSE nodes' = nodes]_vars

\* a REPLAY has just returned for a node whose history holds the one
\* checkpoint its RECORD appended
C8_Witness ==
    \E n \in NodeIds :
        /\ last[n].path = "replay"
        /\ invoked[n] = 1
        /\ HistoryLen(nodes, n) = 1
        /\ Quiet

\* C9 (as claimed): whenever json.dumps fails on the inputs, the wrapper
\* returns the callable's output and has appended one checkpoint whose
\* inputs carry the fallback flag.
C9_SerializationFailureRecovered ==
    [][\A t \in Threads :
         LET n == call[t].node
         IN  (/\ pc[t] = "ret" /\ pc'[t] = "idle"
              /\ DumpsOutcome(call[t].args, call[t].kwargs) # "ok")
             => /\ last'[n] = [path |-> "record", ret |-> call[t].output]
                /\ HistoryLen(nodes', n) = HistoryLen(nodes, n) + 1
                /\ Latest(nodes', n).inputs.unserializable]_vars

\* C10 (as claimed): in every reachable manager state, to_file succeeds and
\* checkpoints_from_file of the file it wrote succeeds and yields the same
\* node histories.
C10_RoundTrip ==
    LET w == to_file(nodes, session_id)
        r == checkpoints_from_file(w.file, clock, heap)
    IN  /\ w.raised = None
        /\ r.raised = None
        /\ r.nodes = nodes

\* the status strings of the persisted file format
StatusStrings == {"run", "cached"}

\* C11 (as claimed): whenever the document at the path is the one to_file
\* last wrote, it is a JSON object with an integer session_id and a nodes
\* array of {id, checkpoints} entries, every status the string "run" or
\* "cached".
C11_ExportIsStructured ==
    persisted.run > 0
    => /\ file.kind = "object"
       /\ file.session_id \in Nat
       /\ \A i \in 1..Len(file.nodes) :
            \A j \in 1..Len(file.nodes[i].checkpoints) :
                file.nodes[i].checkpoints[j].status \in StatusStrings

\* NodeStatus(value): the enum member a status string names
StatusMember(st) == IF st = "run" THEN RUN ELSE CACHED

\* a checkpoint of a document has every member the loader reads, a positive
\* timestamp and a status string of the enum
WellFormedCheckpoint(cp) ==
    /\ Missing \notin {cp.output, cp.status, cp.error}
    /\ cp.timestamp > 0
    /\ cp.status \in StatusStrings

WellFormed(f) ==
    /\ f.kind = "object"
    /\ \A i \in 1..Len(f.nodes) :
          /\ f.nodes[i].id # Missing
          /\ \A j \in 1..Len(f.nodes[i].checkpoints) :
                WellFormedCheckpoint(f.nodes[i].checkpoints[j])

\* C12 (as claimed): a load of a well-formed document gives every checkpoint
\* the enum member its status string names, an error exactly when the
\* document's checkpoint has one (the empty string is one), and a snapshot
\* exactly when the document's checkpoint has one (the empty mapping is one).
C12_CodecPreservesStatusAndPresence ==
    [][\A t \in Threads :
         (Load(t) /\ WellFormed(file))
         => \A i \in 1..Len(file.nodes) :
              \A j \in 1..Len(file.nodes[i].checkpoints) :
                 LET d == file.nodes[i].checkpoints[j]
                     c == nodes'[file.nodes[i].id][j]
                 IN  /\ c.status = StatusMember(d.status)
                     /\ (c.error = None) <=> (d.error = None)
                     /\ (c.shared_store_state = None)
                           <=> (d.shared_store_state = <<>>)]_vars

\* C13: a checkpoints_from_file call that raises (no file, invalid JSON, a
\* JSON value of the wrong type, a missing key, also in a node that follows
\* valid nodes) leaves the node map, every history in it, the objects the
\* checkpoints refer to and the session id as they were.
C13_FailedLoadChangesNothing ==
    [][\A t \in Threads :
         (Load(t) /\ checkpoints_from_file(file, clock, heap).raised # None)
         => /\ nodes' = nodes
            /\ session_id' = session_id
            /\ heap' = heap]_vars

\* a load of the document whose second node lacks "id" has just raised
\* KeyError in a manager whose node map holds a checkpoint
C13_Witness ==
    /\ load_raised = "KeyError"
    /\ file.kind = "object" /\ Len(file.nodes) = 2
    /\ HistoryLen(nodes, "A.prep") > 0

\* C14 (as claimed): a load of a document that is not well formed (a
\* checkpoint without one of its members, with a null or zero timestamp,
\* with a null or unknown status) raises; it never completes.
C14_ImportNeverDefaults ==
    [][\A t \in Threads :
         (Load(t) /\ ~WellFormed(file)) => load_raised' # None]_vars

\* C15: with two threads appending to distinct nodes in any interleaving,
\* get_checkpoint(n) is none exactly while nothing was appended to n, becomes
\* the checkpoint just appended when an add_checkpoint for n completes, and
\* is left as it was by every other step.
C15_AppendOrder ==
    [][\A n \in NodeIds :
         LET appending == {t \in Threads : /\ pc[t] = "append" /\ pc'[t] = "idle"
                                           /\ call[t].node = n}
         IN  /\ (get_checkpoint(nodes', n) = <<>>) <=> (n \notin DOMAIN truth')
             /\ IF appending # {}
                THEN \A t \in appending :
                        get_checkpoint(nodes', n) = <<call[t].cp[1]>>
                ELSE get_checkpoint(nodes', n) = get_checkpoint(nodes, n)]_vars

\* A.prep has two checkpoints, the later one on top, while the other thread
\* is inside add_checkpoint for B.prep, whose history is still empty
C15_Witness ==
    /\ HistoryLen(nodes, "A.prep") = 2
    /\ get_checkpoint(nodes, "A.prep")[1].timestamp > nodes["A.prep"][1].timestamp
    /\ pc["t2"] = "append"
    /\ HistoryLen(nodes, "B.prep") = 0
    /\ get_checkpoint(nodes, "B.prep") = <<>>

\* the attributes Checkpoint.__init__ sets
CheckpointFields == {"session_id", "inputs", "output", "execution_time",
                     "timestamp", "status", "error", "shared_store_state"}

\* history h is a prefix of history g
IsPrefix(h, g) == Len(h) <= Len(g) /\ SubSeq(g, 1, Len(h)) = h

\* every node of nd is a node of ne and its history in nd is a prefix of its
\* history in ne
AppendOnly(nd, ne) ==
    \A n \in DOMAIN nd : n \in DOMAIN ne /\ IsPrefix(nd[n], ne[n])

\* what get_checkpoint returns is none or a checkpoint with every attribute
FullyConstructed(nd) ==
    \A n \in NodeIds :
        get_checkpoint(nd, n) # <<>>
        => DOMAIN get_checkpoint(nd, n)[1] = CheckpointFields

\* this step is a checkpoints_from_file call that returns
SuccessfulLoad ==
    \E t \in Threads :
        Load(t) /\ checkpoints_from_file(file, clock, heap).raised = None

\* C16 (as claimed): under every step of a manager (wrapper call, export,
\* load), every node stays and its history before the step is a prefix of
\* its history after it, and get_checkpoint never shows a partial checkpoint.
C16_AppendOnlyUnderEveryOperation ==
    [][run' = run => AppendOnly(nodes, nodes') /\ FullyConstructed(nodes')]_vars

\* C16 (amended): a checkpoints_from_file call that returns replaces the node
\* map by the document's histories; under every other step of a manager
\* (wrapper call, export, failed load) every node stays and its history
\* before the step is a prefix of its history after it; get_checkpoint never
\* shows a partial checkpoint.
C16_AppendOnlyExceptLoad ==
    [][run' = run =>
         /\ IF SuccessfulLoad
            THEN nodes' = checkpoints_from_file(file, clock, heap).nodes
            ELSE AppendOnly(nodes, nodes')
         /\ FullyConstructed(nodes')]_vars

\* A.prep holds two checkpoints, the older one first; an export truncated
\* the file and the load of it has just failed: the history still has both
C16_Witness ==
    /\ HistoryLen(nodes, "A.prep") = 2
    /\ nodes["A.prep"][1].timestamp < nodes["A.prep"][2].timestamp
    /\ file.kind = "truncated"
    /\ load_raised = "JSONDecodeError"

\* every checkpoint in the history of thread t's node carries the output of
\* t's callable
OwnCheckpoints(t) ==
    LET n == node_id(ConcCallable(t))
    IN  \A i \in 1..HistoryLen(nodes, n) : nodes[n][i].output = ConcOutput(t)

C18_OneLockCoversAllAccess ==
    [][\A t \in Threads : (ToFile(t) \/ Load(t)) => LockFree]_vars

\* the value of a recorded argument as a reader of the checkpoint finds it:
\* the current contents of the dict it refers to, or the text stored
ArgValue(a, h) == IF a.kind = "obj" /\ a.id \in Objs THEN h[a.id] ELSE a.text

\* the value of a checkpoint's inputs
InputsValue(cp, h) ==
    [args |-> [i \in 1..Len(cp.inputs.args) |-> ArgValue(cp.inputs.args[i], h)],
     kwargs |-> [i \in 1..Len(cp.inputs.kwargs) |-> ArgValue(cp.inputs.kwargs[i], h)]]

\* C19 (as claimed): under every later step (wrapper call, write by the
\* caller to a dict it passed) every checkpoint of every history keeps its
\* attributes and the value of its recorded inputs.
C19_CheckpointImmutable ==
    [][\A n \in DOMAIN nodes : \A i \in 1..Len(nodes[n]) :
         /\ nodes'[n][i] = nodes[n][i]
         /\ InputsValue(nodes'[n][i], heap') = InputsValue(nodes[n][i], heap)]_vars

\* C20 (as claimed): the checkpoint a wrapper call reads from the manager,
\* and replays if it is a hit, was recorded by a call of the same callable;
\* callables of the same name defined in different classes or in different
\* modules never read each other's checkpoints.
C20_NodeIdentityDistinguishesScopes ==
    \A t \in Threads :
        /\ call[t].node = node_id(call[t].func)
        /\ call[t].cached # <<>>
           => call[t].cached[1].output = ScopeOutput(call[t].func)

\* C21 (as claimed): the checkpoint a RECORD appends has a snapshot exactly
\* when the call had a mapping among its positional arguments, and the
\* snapshot then holds the contents that mapping had when the callable
\* returned, the empty contents included.
C21_SnapshotPresentOnRecord ==
    [][\A t \in Threads :
         LET n == call[t].node
             shared == find_shared(call[t].args)
         IN  (pc[t] = "ret" /\ pc'[t] = "idle" /\ last'[n].path = "record")
             => LET cp == Latest(nodes', n)
                IN  /\ (cp.shared_store_state = None) <=> (shared = None)
                    /\ shared # None
                       => heap'[cp.shared_store_state] = heap[shared]]_vars

\* the positional argument of least index that is a dict, if there is one
FirstMapping(args) ==
    LET idx == {i \in 1..Len(args) : args[i] \in Objs}
    IN  IF idx = {} THEN <<>>
        ELSE <<args[CHOOSE i \in idx : \A j \in idx : i <= j]>>

\* C22: a replay writes to no dict other than the first dict among the
\* positional arguments (to none at all when there is none, as for a dict
\* passed by keyword only), and the snapshot of a checkpoint a RECORD appends
\* is that first positional dict or absent, never a dict passed by keyword
\* or a later positional one.
C22_FirstMappingIsCollaborator ==
    [][\A t \in Threads :
         LET n == call[t].node
             first == FirstMapping(call[t].args)
         IN  /\ (pc[t] = "check" /\ pc'[t] = "idle")
                => \A o \in Objs : <<o>> # first => heap'[o] = heap[o]
             /\ (pc[t] = "ret" /\ pc'[t] = "idle" /\ last'[n].path = "record")
                => \/ Latest(nodes', n).shared_store_state = None
                   \/ <<Latest(nodes', n).shared_store_state>> = first]_vars

\* a replay has just returned in a program whose every call passes both
\* dicts, and the two dicts differ: the one that was not the collaborator
\* was left alone
C22_Witness ==
    /\ last["A.prep"].path = "replay"
    /\ pc["t1"] = "idle"
    /\ heap["d1"] # heap["d2"]
    /\ heap["d1"] # EmptyDict /\ heap["d2"] # EmptyDict

\* C23: the add_checkpoint of a RECORD for node n extends n's history by
\* one checkpoint at its end, stamped with the manager's session id, the
\* current time and status RUN, creating the history when n is unknown; the
\* histories of the other nodes and the manager's session id stay as they are.
C23_AddCheckpointFrame ==
    [][\A t \in Threads :
         LET n == call[t].node
         IN  (pc[t] = "ret" /\ pc'[t] = "idle" /\ last'[n].path = "record")
             => /\ DOMAIN nodes' = DOMAIN nodes \cup {n}
                /\ Len(nodes'[n]) = HistoryLen(nodes, n) + 1
                /\ SubSeq(nodes'[n], 1, HistoryLen(nodes, n))
                      = (IF n \in DOMAIN nodes THEN nodes[n] ELSE <<>>)
                /\ Latest(nodes', n).session_id = session_id
                /\ Latest(nodes', n).timestamp = clock
                /\ Latest(nodes', n).status = RUN
                /\ \A m \in DOMAIN nodes : m # n => nodes'[m] = nodes[m]
                /\ session_id' = session_id]_vars

\* in a later run, whose session id differs from the first run's, a RECORD
\* has extended the history loaded from a document by a checkpoint with the
\* new session id
C23_Witness ==
    /\ run > 1
    /\ HistoryLen(nodes, "A.prep") = 2
    /\ nodes["A.prep"][1].session_id # session_id
    /\ nodes["A.prep"][2].session_id = session_id
    /\ last["A.prep"].path = "record"

\* the members of a checkpoint the loader hands to Checkpoint unchanged
Carried(cp) == [session_id |-> cp.session_id, inputs |-> cp.inputs,
                output |-> cp.output, execution_time |-> cp.execution_time]

\* C24: after a checkpoints_from_file call that returns, the node map has
\* exactly the node ids of the document and each history has the document's
\* checkpoints of that node, as many and in the same order; nothing of the
\* histories held before remains.
C24_ImportReplacesNodes ==
    [][SuccessfulLoad =>
         /\ DOMAIN nodes' = {file.nodes[i].id : i \in 1..Len(file.nodes)}
         /\ \A i \in 1..Len(file.nodes) :
              LET doc == file.nodes[i].checkpoints
                  got == nodes'[file.nodes[i].id]
              IN  /\ Len(got) = Len(doc)
                  /\ \A j \in 1..Len(doc) : Carried(got[j]) = Carried(doc[j])]_vars

\* the document with the two checkpoints of B.prep has just been loaded in
\* the first run, after a call of A.prep was recorded in that run: only
\* B.prep is there, its checkpoints in document order
C24_Witness ==
    /\ load_raised = None
    /\ run = 1 /\ clock > 1
    /\ DOMAIN nodes = {"B.prep"}
    /\ Len(nodes["B.prep"]) = 2
    /\ nodes["B.prep"][1].output = "out2" /\ nodes["B.prep"][2].output = "out1"

\* C25: every wrapper call that was started returns or raises, with two
\* threads calling concurrently and with a callable that calls another
\* instrumented callable: the lock is free whenever a callable runs and is
\* released when add_checkpoint and get_checkpoint end.
C25_EveryCallReturns ==
    \A t \in Threads : (pc[t] # "idle") ~> (pc[t] = "idle")

\* both threads have started and finished all their calls and every call
\* executed its callable
C25_Witness ==
    /\ Quiet
    /\ \A t \in Threads : ncalls[t] = MaxCalls
    /\ \A n \in NodeIds : invoked[n] = MaxCalls

\* C26 (as claimed): a node whose calls all carry a non-empty mapping has its
\* underlying callable executed at most once, whatever the interleaving of
\* the threads that call it: no two calls both miss the cache and both
\* execute and append.
C26_ExecutedAtMostOnce ==
    /\ invoked[node_id(RaceCallable)] <= 1
    /\ HistoryLen(nodes, node_id(RaceCallable)) <= 1


\* C27: without a load, in every interleaving of wrapper calls the number of
\* checkpoints in a node's history is the number of wrapper calls for that
\* node that ran the callable to a normal return and returned after
\* add_checkpoint; replayed calls, calls whose callable raised and calls
\* still in flight contribute nothing.
C27_HistoryCountsRecordedCalls ==
    \A n \in NodeIds :
        /\ HistoryLen(nodes, n) = recorded[n]
        /\ recorded[n] <= invoked[n]

\* three calls of A.prep have returned: one recorded, one replayed and one
\* whose callable raised; the history holds one checkpoint
C27_Witness ==
    /\ Quiet
    /\ ncalls["t1"] + ncalls["t2"] = 3
    /\ invoked = [n \in NodeIds |-> IF n = "A.prep" THEN 2 ELSE 0]
    /\ recorded["A.prep"] = 1
    /\ last["A.prep"].path = "raise"
    /\ HistoryLen(nodes, "A.prep") = 1

\* C28 (as claimed): a to_file that raises leaves the document that was at
\* the path as it was, and leaves no empty or truncated file behind.
C28_FailedPersistKeepsFile ==
    [][\A t \in Threads :
         (ToFile(t) /\ to_file(nodes, session_id).raised # None)
         => /\ file # AbsentFile => file' = file
            /\ file' # TruncatedFile]_vars

\* C29 (as claimed): whenever the post of a workflow node has set the status
\* to "error" and returned the action "error", the node has a successor for
\* that action and the node that runs next is the error handler; the flow
\* never ends on an "error" action without the error handler having run.
C29_ErrorActionReachesErrorNode ==
    wf_last.action = "error"
    => /\ wf_shared.status = "error"
       /\ \E e \in successors[wf_last.node] : e[1] = "error"
       /\ wf_curr = "error_handler"

\* C30 (as claimed): once a plan is stored, its current_step_index is at
\* least 0 and at most the number of its steps.
C30_StepIndexWithinPlan ==
    ("plan" \in wf_shared.keys /\ wf_shared.plan # <<>>)
    => /\ 0 <= wf_shared.plan[1].current_step_index
       /\ wf_shared.plan[1].current_step_index <= wf_shared.plan[1].steps

============================================================================
